---- MODULE Spec2Model ----
(***************************************************************************)
(* Model of module_utils/k8s/raw.py: KubernetesRawModule.perform_action,   *)
(* the per-definition reconciliation of a resource definition against the  *)
(* live object of a cluster.                                               *)
(*                                                                         *)
(* Python values are tagged trees:                                         *)
(*   [n |-> TRUE]   None                                                   *)
(*   [s |-> chars]  a string, as the sequence of its characters            *)
(*   [m |-> f]      a dict, f a function from string keys to values        *)
(*   [l |-> q]      a list, q a sequence of values                         *)
(* The cluster variable is the object slot (resource, namespace, name)     *)
(* that the runs address; successive runs are successive invocations of    *)
(* the module against that slot.                                           *)
(***************************************************************************)
EXTENDS Integers, Sequences, FiniteSets, TLC

VARIABLES
    cluster,      \* the live object of the addressed slot, or NoneV
    params,       \* self.params / self.check_mode and the definition of the run
    pc,           \* position inside perform_action
    existing,     \* local `existing`
    match,        \* local `match` (FALSE until computed)
    k8s_obj,      \* local `k8s_obj`, Unbound until assigned
    log,          \* the cluster calls issued by the run, in order
    report,       \* how the run ended: exit_json, fail_json or an exception
    before,       \* the cluster when the run started
    prevCreated,  \* the definition the previous run created (plain present run), or NoneV
    runs,         \* number of runs started
    mod           \* the module object: __init__ and execute_module (their fields and position)

vars == <<cluster, params, pc, existing, match, k8s_obj, log, report, before,
          prevCreated, runs, mod>>

\* Number of successive runs of the module against the slot.
MaxRuns == 3

-----------------------------------------------------------------------------
(* Values *)

NoneV == [n |-> TRUE]
Str(chars) == [s |-> chars]
Map(f) == [m |-> f]
Lst(q) == [l |-> q]
Unbound == [unbound |-> TRUE]

IsMap(v) == DOMAIN v = {"m"}
IsLst(v) == DOMAIN v = {"l"}

\* dict(): the empty dict
EmptyDict == Map([k \in {} |-> NoneV])

\* d.get(k): None when the key is missing
DictGet(d, k) == IF k \in DOMAIN d.m THEN d.m[k] ELSE NoneV

\* str.endswith
EndsWith(str, suffix) ==
    /\ Len(str) >= Len(suffix)
    /\ SubSeq(str, Len(str) - Len(suffix) + 1, Len(str)) = suffix

\* the literal of line 104
ListSuffix == <<"l", "i", "s", "t">>

\* exc.status that is not an error of get (line 112)
NotFound == 404

\* statuses of a failing call other than not-found, and the body it carries
ErrorStatuses == {500}
ErrorBody == "boom"

-----------------------------------------------------------------------------
(* dictdiffer.diff(first, second), as the set of its operations.  Two dicts  *)
(* are compared key by key (keys of one side only give one add / remove     *)
(* operation), two lists index by index, anything else by equality.         *)

\* a diff that reports changed values and removed keys but no added keys
RECURSIVE DiffIgnoringAdditions(_, _, _)
DiffIgnoringAdditions(first, second, path) ==
    IF IsMap(first) /\ IsMap(second) THEN
        LET intersection == DOMAIN first.m \cap DOMAIN second.m
            deletion == DOMAIN first.m \ DOMAIN second.m
        IN  (IF deletion # {} THEN {[op |-> "remove", path |-> path, keys |-> deletion]} ELSE {})
            \cup UNION {DiffIgnoringAdditions(first.m[k], second.m[k], Append(path, k)) :
                            k \in intersection}
    ELSE IF IsLst(first) /\ IsLst(second) THEN
        LET len_first == Len(first.l)
            len_second == Len(second.l)
            intersection == 1 .. (IF len_first < len_second THEN len_first ELSE len_second)
            deletion == {ToString(i) : i \in (len_second + 1) .. len_first}
        IN  (IF deletion # {} THEN {[op |-> "remove", path |-> path, keys |-> deletion]} ELSE {})
            \cup UNION {DiffIgnoringAdditions(first.l[i], second.l[i], Append(path, ToString(i))) :
                            i \in intersection}
    ELSE IF first # second THEN {[op |-> "change", path |-> path, keys |-> {}]}
    ELSE {}

RECURSIVE Diff(_, _, _)
Diff(first, second, path) ==
    IF IsMap(first) /\ IsMap(second) THEN
        LET intersection == DOMAIN first.m \cap DOMAIN second.m
            addition == DOMAIN second.m \ DOMAIN first.m
            deletion == DOMAIN first.m \ DOMAIN second.m
        IN  (IF addition # {} THEN {[op |-> "add", path |-> path, keys |-> addition]} ELSE {})
            \cup (IF deletion # {} THEN {[op |-> "remove", path |-> path, keys |-> deletion]} ELSE {})
            \cup UNION {Diff(first.m[k], second.m[k], Append(path, k)) : k \in intersection}
    ELSE IF IsLst(first) /\ IsLst(second) THEN
        LET len_first == Len(first.l)
            len_second == Len(second.l)
            intersection == 1 .. (IF len_first < len_second THEN len_first ELSE len_second)
            addition == {ToString(i) : i \in (len_first + 1) .. len_second}
            deletion == {ToString(i) : i \in (len_second + 1) .. len_first}
        IN  (IF addition # {} THEN {[op |-> "add", path |-> path, keys |-> addition]} ELSE {})
            \cup (IF deletion # {} THEN {[op |-> "remove", path |-> path, keys |-> deletion]} ELSE {})
            \cup UNION {Diff(first.l[i], second.l[i], Append(path, ToString(i))) : i \in intersection}
    ELSE IF first # second THEN {[op |-> "change", path |-> path, keys |-> {}]}
    ELSE {}

\* the existing object taken whole, without the projection
SharedAttrsUnprojected(definition, existing_attrs) == existing_attrs

\* lines 150-152: the existing object projected on the keys of the definition
SharedAttrs(definition, existing_attrs) ==
    Map([k \in DOMAIN definition.m |-> DictGet(existing_attrs, k)])

\* line 153
Diffs(definition, existing_attrs) ==
    Diff(definition, SharedAttrs(definition, existing_attrs), <<>>)

\* the verdict with the test of the length reversed
MatchesInverted(definition, existing_attrs) ==
    Cardinality(Diffs(definition, existing_attrs)) # 0

\* line 154
Matches(definition, existing_attrs) == Cardinality(Diffs(definition, existing_attrs)) = 0

-----------------------------------------------------------------------------
(* The cluster behind the resource handle.  create and replace store the    *)
(* body, update is a merge patch of the body into the live object (a null   *)
(* member of the patch removes the key), delete removes the object.         *)

RECURSIVE MergePatch(_, _)
MergePatch(target, patch) ==
    IF IsMap(patch) THEN
        LET base == IF IsMap(target) THEN target ELSE EmptyDict
            kept == {k \in DOMAIN base.m : k \notin DOMAIN patch.m}
            set == {k \in DOMAIN patch.m : patch.m[k] # NoneV}
        IN  Map([k \in kept \cup set |->
                    IF k \in set THEN MergePatch(DictGet(base, k), patch.m[k])
                    ELSE base.m[k]])
    ELSE patch

-----------------------------------------------------------------------------
(* The inputs: definitions, and the objects the slot may hold at the start. *)

Omitted == [omitted |-> TRUE]

KindConfigMap == <<"C", "o", "n", "f", "i", "g", "M", "a", "p">>
KindPlaylist == <<"P", "l", "a", "y", "l", "i", "s", "t">>
KindPodList == <<"P", "o", "d", "L", "i", "s", "t">>
Kinds == {KindConfigMap, KindPlaylist, KindPodList}

V == Str(<<"v">>)
Old == Str(<<"o", "l", "d">>)
X == Str(<<"x">>)

\* a manifest: kind, apiVersion, metadata, and data / status when given
Manifest(kind, data, status) ==
    Map([k \in {"kind", "apiVersion", "metadata"}
                \cup (IF data = Omitted THEN {} ELSE {"data"})
                \cup (IF status = Omitted THEN {} ELSE {"status"}) |->
            CASE k = "kind" -> Str(kind)
              [] k = "apiVersion" -> Str(<<"v", "1">>)
              [] k = "metadata" -> Map([name |-> Str(<<"a">>)])
              [] k = "data" -> data
              [] k = "status" -> status])

DefinitionData == {Omitted, NoneV, Map([k |-> V]), Map([k |-> Old]), Lst(<<V>>)}
Definitions == {Manifest(kind, data, Omitted) : kind \in Kinds, data \in DefinitionData}

ObjectData == {Map([k |-> V]), Map([k |-> Old]), Map([k |-> V, extra |-> X]), Lst(<<V, X>>)}
InitialObjects ==
    {Manifest(kind, data, Omitted) : kind \in Kinds, data \in ObjectData}
    \cup {Manifest(kind, Map([k |-> V]), X) : kind \in Kinds}

States == {"present", "absent"}

Inputs ==
    [definition : Definitions, state : States, force : BOOLEAN, check_mode : BOOLEAN]

-----------------------------------------------------------------------------
(* Reports and calls *)

NoReport ==
    [kind |-> "none", changed |-> FALSE, result |-> EmptyDict, msg |-> <<>>, error |-> 0]

\* self.exit_json(**return_attributes)
ExitJson(changed, result) ==
    [kind |-> "exit", changed |-> changed, result |-> result, msg |-> <<>>, error |-> 0]

\* self.fail_json(msg=..., error=...); error is 0 when the call gives none
FailJson(text, body, error) ==
    [kind |-> "fail", changed |-> FALSE, result |-> EmptyDict,
     msg |-> <<text, body>>, error |-> error]

\* an exception nothing catches
Raised(name) ==
    [kind |-> "exception", changed |-> FALSE, result |-> EmptyDict,
     msg |-> <<name>>, error |-> 0]

\* one call on the resource handle and its answer (status 0: no exception)
Call(op, body, status) == [op |-> op, body |-> body, status |-> status]

Mutating == {"create", "replace", "update", "delete"}

Count(ops) == Cardinality({i \in 1 .. Len(log) : log[i].op \in ops})

\* k8s_obj.to_dict() of the answer of list
ListResult(obj) == Lst(IF obj = NoneV THEN <<>> ELSE <<obj>>)

-----------------------------------------------------------------------------
(* perform_action *)

\* line 104
IsListKind(definition) == EndsWith(definition.m.kind.s, ListSuffix)

\* the check-mode tests lost or reversed
DeleteIssuedAlways == TRUE
CreateIssuedInverted == params.check_mode
UpdateIssuedInverted == params.check_mode

\* lines 122, 132, 139, 160: the call is made unless in check-mode
DeleteIssued == ~params.check_mode
CreateIssued == ~params.check_mode
ReplaceIssued == ~params.check_mode
UpdateIssued == ~params.check_mode

\* the state compared with a literal it never equals
WantAbsentMistyped == params.state = "Absent"

\* line 116
WantAbsent == params.state = "absent"

\* lines 117, 131: `not existing`
NotExisting == existing = NoneV

\* force honoured only when the object differs from the definition
ForcedReplaceWhenDiffers ==
    existing # NoneV /\ params.force /\ ~Matches(params.definition, existing)

\* line 138
ForcedReplace == existing # NoneV /\ params.force

\* lines 145, 165: k8s_obj.to_dict() of a local never assigned raises
ExitWithObject(obj) ==
    IF obj = Unbound THEN Raised("UnboundLocalError") ELSE ExitJson(TRUE, obj)

\* perform_action entered directly, with a resource handle and a definition
NoModule == [mpc |-> "perform_action"]

Init ==
    /\ cluster \in {NoneV} \cup InitialObjects
    /\ params \in Inputs
    /\ cluster # NoneV => params.definition.m.kind = cluster.m.kind
    /\ pc = "perform_action"
    /\ existing = NoneV
    /\ match = FALSE
    /\ k8s_obj = Unbound
    /\ log = <<>>
    /\ report = NoReport
    /\ before = cluster
    /\ prevCreated = NoneV
    /\ runs = 1
    /\ mod = NoModule

\* lines 104-107: a kind ending in 'list' is listed and the run ends
ListKind ==
    /\ pc = "perform_action"
    /\ IsListKind(params.definition)
    /\ \/ /\ log' = Append(log, Call("list", NoneV, 0))
          /\ k8s_obj' = ListResult(cluster)
          /\ report' = ExitJson(FALSE, k8s_obj')
       \/ \E status \in ErrorStatuses :
          /\ log' = Append(log, Call("list", NoneV, status))
          /\ k8s_obj' = k8s_obj
          /\ report' = Raised("ApiException")
    /\ pc' = "done"
    /\ UNCHANGED <<cluster, params, existing, match, before, prevCreated, runs, mod>>

\* get with every ApiException taken as not-found
GetExistingSwallowsErrors ==
    /\ pc = "perform_action"
    /\ ~IsListKind(params.definition)
    /\ \E status \in {IF cluster = NoneV THEN NotFound ELSE 0} \cup ErrorStatuses :
          /\ log' = Append(log, Call("get", NoneV, status))
          /\ existing' = IF status = 0 THEN cluster ELSE NoneV
    /\ pc' = "decide"
    /\ UNCHANGED <<cluster, params, match, k8s_obj, report, before, prevCreated, runs, mod>>

\* lines 109-114
GetExisting ==
    /\ pc = "perform_action"
    /\ ~IsListKind(params.definition)
    /\ \E status \in {IF cluster = NoneV THEN NotFound ELSE 0} \cup ErrorStatuses :
          /\ log' = Append(log, Call("get", NoneV, status))
          /\ existing' = IF status = 0 THEN cluster ELSE NoneV
          /\ IF status # 0 /\ status # NotFound
             THEN /\ report' = FailJson("Failed to retrieve requested object: ",
                                        ErrorBody, status)
                  /\ pc' = "done"
             ELSE /\ report' = report
                  /\ pc' = "decide"
    /\ UNCHANGED <<cluster, params, match, k8s_obj, before, prevCreated, runs, mod>>

\* state=absent deleting without looking at `existing`
AbsentAlwaysDeletes ==
    /\ pc = "decide"
    /\ WantAbsent
    /\ NotExisting
    /\ log' = Append(log, Call("delete", NoneV, 0))
    /\ report' = ExitJson(TRUE, EmptyDict)
    /\ pc' = "done"
    /\ UNCHANGED <<cluster, params, existing, match, k8s_obj, before, prevCreated, runs, mod>>

\* lines 116-119
AbsentNoop ==
    /\ pc = "decide"
    /\ WantAbsent
    /\ NotExisting
    /\ report' = ExitJson(FALSE, EmptyDict)
    /\ pc' = "done"
    /\ UNCHANGED <<cluster, params, existing, match, k8s_obj, log, before, prevCreated, runs, mod>>

\* delete called a second time after it failed
DeleteRetried ==
    /\ pc = "decide"
    /\ WantAbsent
    /\ ~NotExisting
    /\ IF DeleteIssued
       THEN \/ /\ log' = Append(log, Call("delete", NoneV, 0))
               /\ cluster' = NoneV
               /\ report' = ExitJson(TRUE, EmptyDict)
            \/ \E status \in ErrorStatuses :
               /\ log' = log \o <<Call("delete", NoneV, status), Call("delete", NoneV, 0)>>
               /\ cluster' = NoneV
               /\ report' = ExitJson(TRUE, EmptyDict)
       ELSE /\ report' = ExitJson(TRUE, EmptyDict)
            /\ UNCHANGED <<log, cluster>>
    /\ pc' = "done"
    /\ UNCHANGED <<params, existing, match, k8s_obj, before, prevCreated, runs, mod>>

\* lines 120-129
Delete ==
    /\ pc = "decide"
    /\ WantAbsent
    /\ ~NotExisting
    /\ IF DeleteIssued
       THEN \/ /\ log' = Append(log, Call("delete", NoneV, 0))
               /\ cluster' = NoneV
               /\ report' = ExitJson(TRUE, EmptyDict)
            \/ \E status \in ErrorStatuses :
               /\ log' = Append(log, Call("delete", NoneV, status))
               /\ cluster' = cluster
               /\ report' = FailJson("Failed to delete object: ", ErrorBody, status)
       ELSE /\ report' = ExitJson(TRUE, EmptyDict)
            /\ UNCHANGED <<log, cluster>>
    /\ pc' = "done"
    /\ UNCHANGED <<params, existing, match, k8s_obj, before, prevCreated, runs, mod>>

\* lines 131-136: create is not inside a try
Create ==
    /\ pc = "decide"
    /\ ~WantAbsent
    /\ NotExisting
    /\ IF CreateIssued
       THEN \/ /\ log' = Append(log, Call("create", params.definition, 0))
               /\ cluster' = params.definition
               /\ k8s_obj' = cluster'
               /\ report' = ExitJson(TRUE, k8s_obj')
            \/ \E status \in ErrorStatuses :
               /\ log' = Append(log, Call("create", params.definition, status))
               /\ report' = Raised("ApiException")
               /\ UNCHANGED <<cluster, k8s_obj>>
       ELSE /\ report' = ExitJson(TRUE, EmptyDict)
            /\ UNCHANGED <<log, cluster, k8s_obj>>
    /\ pc' = "done"
    /\ UNCHANGED <<params, existing, match, before, prevCreated, runs, mod>>

\* lines 138-147
Replace ==
    /\ pc = "decide"
    /\ ~WantAbsent
    /\ ~NotExisting
    /\ ForcedReplace
    /\ IF ReplaceIssued
       THEN \/ /\ log' = Append(log, Call("replace", params.definition, 0))
               /\ cluster' = params.definition
               /\ k8s_obj' = cluster'
               /\ report' = ExitWithObject(k8s_obj')
            \/ \E status \in ErrorStatuses :
               /\ log' = Append(log, Call("replace", params.definition, status))
               /\ report' = FailJson("Failed to replace object: ", ErrorBody, status)
               /\ UNCHANGED <<cluster, k8s_obj>>
       ELSE /\ report' = ExitWithObject(k8s_obj)
            /\ UNCHANGED <<log, cluster, k8s_obj>>
    /\ pc' = "done"
    /\ UNCHANGED <<params, existing, match, before, prevCreated, runs, mod>>

\* lines 149-154
Compare ==
    /\ pc = "decide"
    /\ ~WantAbsent
    /\ ~NotExisting
    /\ ~ForcedReplace
    /\ match' = Matches(params.definition, existing)
    /\ pc' = "compared"
    /\ UNCHANGED <<cluster, params, existing, k8s_obj, log, report, before, prevCreated, runs, mod>>

\* lines 156-158
NoChange ==
    /\ pc = "compared"
    /\ match
    /\ report' = ExitJson(FALSE, existing)
    /\ pc' = "done"
    /\ UNCHANGED <<cluster, params, existing, match, k8s_obj, log, before, prevCreated, runs, mod>>

\* lines 159-167: the failure report of update carries no error status
Update ==
    /\ pc = "compared"
    /\ ~match
    /\ IF UpdateIssued
       THEN \/ /\ log' = Append(log, Call("update", params.definition, 0))
               /\ cluster' = MergePatch(cluster, params.definition)
               /\ k8s_obj' = cluster'
               /\ report' = ExitWithObject(k8s_obj')
            \/ \E status \in ErrorStatuses :
               /\ log' = Append(log, Call("update", params.definition, status))
               /\ report' = FailJson("Failed to patch object: ", ErrorBody, 0)
               /\ UNCHANGED <<cluster, k8s_obj>>
       ELSE /\ report' = ExitWithObject(k8s_obj)
            /\ UNCHANGED <<log, cluster, k8s_obj>>
    /\ pc' = "done"
    /\ UNCHANGED <<params, existing, match, before, prevCreated, runs, mod>>

\* the previous run created the object as a plain present run
PlainCreate ==
    /\ ~WantAbsent /\ ~params.force /\ ~params.check_mode
    /\ report.kind = "exit"
    /\ Count({"create"}) = 1

\* the module is run again against the same slot
Invoke ==
    /\ pc = "done"
    /\ runs < MaxRuns
    /\ params' \in Inputs
    /\ cluster # NoneV => params'.definition.m.kind = cluster.m.kind
    /\ pc' = "perform_action"
    /\ existing' = NoneV
    /\ match' = FALSE
    /\ k8s_obj' = Unbound
    /\ log' = <<>>
    /\ report' = NoReport
    /\ before' = cluster
    /\ prevCreated' = IF PlainCreate THEN params.definition ELSE NoneV
    /\ runs' = runs + 1
    /\ UNCHANGED <<cluster, mod>>

Next ==
    \/ ListKind
    \/ GetExisting
    \/ AbsentNoop
    \/ Delete
    \/ Create
    \/ Replace
    \/ Compare
    \/ NoChange
    \/ Update
    \/ Invoke

Spec == Init /\ [][Next]_vars

-----------------------------------------------------------------------------
(* The module object: __init__ (lines 37-71) and execute_module (lines       *)
(* 87-91), for an invocation given an inline resource_definition or a src    *)
(* file.  src is modelled by the documents the file holds.                   *)

\* Largest number of documents in a src file.
MaxDefinitions == 2

\* Python truth of a parameter: None, '' and {} are false
Truthy(v) == v # NoneV /\ v # Str(<<>>) /\ v # EmptyDict

\* a definition without kind, and one without apiVersion
NoKindDefinition ==
    Map([apiVersion |-> Str(<<"v", "1">>), metadata |-> Map([name |-> Str(<<"a">>)])])
NoApiVersionDefinition ==
    Map([kind |-> Str(KindConfigMap), metadata |-> Map([name |-> Str(<<"a">>)])])

\* a definition of a kind served under a group
KindDeployment == <<"D", "e", "p", "l", "o", "y", "m", "e", "n", "t">>
DeploymentDefinition ==
    Map([kind |-> Str(KindDeployment),
         apiVersion |-> Str(<<"a", "p", "p", "s", "/", "v", "1">>),
         metadata |-> Map([name |-> Str(<<"a">>)])])

FileDocuments ==
    {Manifest(KindConfigMap, Omitted, Omitted), DeploymentDefinition, NoKindDefinition}
InlineDefinitions ==
    {EmptyDict, Manifest(KindConfigMap, Omitted, Omitted), DeploymentDefinition,
     NoKindDefinition, NoApiVersionDefinition}

\* self.load_resource_definitions(src): the documents of the file, in order
SourceFiles == UNION {[1 .. n -> FileDocuments] : n \in 0 .. MaxDefinitions}

\* the endpoints the client knows
Endpoints ==
    {[kind |-> KindConfigMap, group |-> <<>>, apiversion |-> <<"v", "1">>],
     [kind |-> KindPodList, group |-> <<>>, apiversion |-> <<"v", "1">>],
     [kind |-> KindDeployment, group |-> <<"a", "p", "p", "s">>,
      apiversion |-> <<"v", "1">>]}

\* '/'.join([resource.group, resource.apiversion])
JoinGroupVersion(resource) == resource.group \o <<"/">> \o resource.apiversion

\* lines 80-84: the predicate exact_match(definition) returns
ExactMatch(definition, resource) ==
    /\ Str(resource.kind) = DictGet(definition, "kind")
    /\ Str(JoinGroupVersion(resource)) = DictGet(definition, "apiVersion")

\* line 79: the parameters exact_match declares; line 90: the arguments of
\* the call self.exact_match(definition), the instance being the first
ExactMatchParameters == <<"definition">>
ExactMatchArguments == <<"self", "definition">>

\* a call whose arguments do not fit the declared parameters raises TypeError
CallRaises(parameters, arguments) == Len(arguments) # Len(parameters)

\* lines 40-47: resource_definition and src are mutually exclusive
MutuallyExclusive == mod.resource_definition # NoneV /\ mod.src # NoneV

\* lines 56-59: the fields of a non-empty inline body replace the parameters
ResolvedApiVersion ==
    IF Truthy(mod.resource_definition)
    THEN DictGet(mod.resource_definition, "apiVersion") ELSE mod.api_version
ResolvedKind ==
    IF Truthy(mod.resource_definition)
    THEN DictGet(mod.resource_definition, "kind") ELSE mod.kind

ModuleInputs ==
    [mpc : {"init"},
     kind : {NoneV, Str(KindConfigMap)},
     api_version : {NoneV, Str(<<"v", "1">>)},
     resource_definition : {NoneV} \cup InlineDefinitions,
     src : {NoneV} \cup {Lst(f) : f \in SourceFiles},
     resource_definitions : {Unbound},
     index : {0},
     resolved : {<<>>},
     actioned : {<<>>},
     resource : {NoneV},
     reports : {<<>>},
     raised : {""}]

InitModule ==
    /\ mod \in ModuleInputs
    /\ mod.resource_definition # NoneV \/ mod.src # NoneV
    /\ params \in [definition : {NoneV}, state : States, force : BOOLEAN,
                   check_mode : BOOLEAN]
    /\ cluster = NoneV
    /\ pc = "idle"
    /\ existing = NoneV
    /\ match = FALSE
    /\ k8s_obj = Unbound
    /\ log = <<>>
    /\ report = NoReport
    /\ before = NoneV
    /\ prevCreated = NoneV
    /\ runs = 0

\* the module ends with fail_json
ModuleFails(text) ==
    [mod EXCEPT !.mpc = "done", !.reports = Append(@, FailJson(text, "", 0))]

\* lines 37-71
Construct ==
    /\ mod.mpc = "init"
    /\ mod' =
        IF MutuallyExclusive
        THEN ModuleFails("parameters are mutually exclusive: resource_definition, src")
        ELSE LET loaded == IF mod.src # NoneV THEN mod.src.l ELSE Unbound
             IN  IF IsMap(mod.resource_definition)
                 THEN IF ~Truthy(ResolvedApiVersion)
                      THEN ModuleFails("Error: no api_version specified.")
                      ELSE IF ~Truthy(ResolvedKind)
                      THEN ModuleFails("Error: no kind specified.")
                      ELSE [mod EXCEPT !.mpc = "execute",
                                       !.api_version = ResolvedApiVersion,
                                       !.kind = ResolvedKind,
                                       !.resource_definitions = <<mod.resource_definition>>]
                 ELSE [mod EXCEPT !.mpc = "execute", !.resource_definitions = loaded]
    /\ UNCHANGED <<cluster, params, pc, existing, match, k8s_obj, log, report, before,
                   prevCreated, runs>>

\* line 88, and the entry of the loop of line 89
ExecuteModule ==
    /\ mod.mpc = "execute"
    /\ mod' = [mod EXCEPT !.mpc = "loop", !.index = 0]
    /\ UNCHANGED <<cluster, params, pc, existing, match, k8s_obj, log, report, before,
                   prevCreated, runs>>

\* lines 89-91: the next definition, or the end of the loop.  The call
\* self.exact_match(definition) passes the instance and the definition to a
\* function that declares one parameter.
LoopStep ==
    /\ mod.mpc = "loop"
    /\ IF mod.index = Len(mod.resource_definitions)
       THEN /\ mod' = [mod EXCEPT !.mpc = "done"]
            /\ UNCHANGED <<params, pc>>
       ELSE LET definition == mod.resource_definitions[mod.index + 1]
                stepped == [mod EXCEPT !.index = @ + 1,
                                       !.resolved = Append(@, definition)]
            IN  IF CallRaises(ExactMatchParameters, ExactMatchArguments)
                THEN /\ mod' = [stepped EXCEPT !.mpc = "done", !.raised = "TypeError"]
                     /\ UNCHANGED <<params, pc>>
                ELSE /\ \E resource \in {e \in Endpoints : ExactMatch(definition, e)} :
                          mod' = [stepped EXCEPT !.mpc = "perform_action",
                                                 !.resource = resource,
                                                 !.actioned = Append(@, definition)]
                     /\ params' = [params EXCEPT !.definition = definition]
                     /\ pc' = "perform_action"
    /\ UNCHANGED <<cluster, existing, match, k8s_obj, log, report, before,
                   prevCreated, runs>>

NextModule ==
    \/ Construct
    \/ ExecuteModule
    \/ LoopStep

SpecModule == InitModule /\ [][NextModule]_vars

-----------------------------------------------------------------------------
(* Properties *)

Done == pc = "done"
Definition == params.definition

\* the run called get and get returned the object / answered 404
GotExisting == Len(log) >= 1 /\ log[1].op = "get" /\ log[1].status = 0
GotNotFound == Len(log) >= 1 /\ log[1].op = "get" /\ log[1].status = NotFound

\* the call `op` was made and raised nothing
Succeeded(op) == \E i \in 1 .. Len(log) : log[i].op = op /\ log[i].status = 0

\* C1: under check-mode no create, replace, update or delete call is issued
\* and the cluster stays as it was when the run started, whatever the state,
\* the force flag and the existing object.
C1_CheckModeNeverMutates ==
    params.check_mode => Count(Mutating) = 0 /\ cluster = before

\* a check-mode run that took the delete branch and left the object in place
C1_Witness ==
    /\ Done /\ params.check_mode /\ WantAbsent /\ GotExisting
    /\ report = ExitJson(TRUE, EmptyDict)
    /\ cluster # NoneV

\* the four mutating branches of a run
DeleteBranch == WantAbsent /\ GotExisting
CreateBranch == ~WantAbsent /\ GotNotFound
ReplaceBranch == ~WantAbsent /\ GotExisting /\ params.force
UpdateBranch ==
    ~WantAbsent /\ GotExisting /\ ~params.force /\ ~Matches(Definition, existing)

\* C2: in each of the four mutating branches a check-mode run ends with a
\* success report whose changed is true, as the run without check-mode reports.
C2_CheckModeReportsChanged ==
    (Done /\ params.check_mode
          /\ (DeleteBranch \/ CreateBranch \/ ReplaceBranch \/ UpdateBranch))
        => report.kind = "exit" /\ report.changed

HoldsDefinition(object, definition) ==
    \A k \in DOMAIN definition.m : DictGet(object, k) = definition.m[k]

\* C4: after a run outside check-mode that ends with a success report, the
\* live object is in the desired state: gone under state=absent, present and
\* equal to the definition under each of its top-level keys otherwise.
C4_Converged ==
    (Done /\ report.kind = "exit" /\ ~params.check_mode)
        => IF WantAbsent THEN cluster = NoneV
           ELSE cluster # NoneV /\ HoldsDefinition(cluster, Definition)

\* every key the definition mentions, at the top level and inside the
\* mappings it mentions, has the desired value in the object
MentionedKeysAgree(definition, object) ==
    \A k \in DOMAIN definition.m :
        IF IsMap(definition.m[k]) /\ IsMap(DictGet(object, k))
        THEN \A j \in DOMAIN definition.m[k].m :
                /\ j \in DOMAIN object.m[k].m
                /\ object.m[k].m[j] = definition.m[k].m[j]
        ELSE DictGet(object, k) = definition.m[k]

\* the object holds, inside a mapping the definition mentions, a key the
\* definition does not mention
NestedExtraKey(definition, object) ==
    \E k \in DOMAIN definition.m :
        /\ IsMap(definition.m[k]) /\ IsMap(DictGet(object, k))
        /\ DOMAIN object.m[k].m \ DOMAIN definition.m[k].m # {}

\* the object holds a top-level key the definition does not mention
TopLevelExtraKey(definition, object) == DOMAIN object.m \ DOMAIN definition.m # {}

\* C5 as stated: with state=present and no force, an extra key of the
\* existing object inside a nested mapping the definition mentions, all
\* mentioned keys agreeing, gives changed=false and no update call.
C5_NestedExtraIgnored ==
    (Done /\ ~WantAbsent /\ ~params.force /\ GotExisting
          /\ NestedExtraKey(Definition, existing)
          /\ MentionedKeysAgree(Definition, existing))
        => /\ report.kind = "exit" /\ ~report.changed
           /\ Count({"update"}) = 0

\* C5 amended: with state=present and no force, an extra key of the existing
\* object at the top level, every top-level key of the definition holding a
\* structurally equal value, gives changed=false with the existing object as
\* result and no update call.
C5_TopLevelExtraIgnored ==
    (Done /\ ~WantAbsent /\ ~params.force /\ GotExisting
          /\ TopLevelExtraKey(Definition, existing)
          /\ HoldsDefinition(existing, Definition))
        => /\ report = ExitJson(FALSE, existing)
           /\ Count({"update"}) = 0

C5_Witness ==
    /\ Done /\ ~WantAbsent /\ ~params.force /\ GotExisting
    /\ TopLevelExtraKey(Definition, existing)
    /\ HoldsDefinition(existing, Definition)
    /\ report.kind = "exit"

\* E with the top-level key k set to v, and with it removed
WithKey(object, k, v) ==
    Map([j \in DOMAIN object.m \cup {k} |-> IF j = k THEN v ELSE object.m[j]])
WithoutKey(object, k) == Map([j \in DOMAIN object.m \ {k} |-> object.m[j]])

TopLevelKeys == {"kind", "apiVersion", "metadata", "data", "status", "extra"}
ProbeValues == {NoneV, X, Map([k |-> Old]), Lst(<<X>>)}

\* C6: the match verdict is true exactly when D[k] and E[k] are structurally
\* equal for every top-level key k of D (a key E lacks reads as None), and
\* setting or removing a top-level key of E that D does not have leaves the
\* verdict as it is.
C6_MatchIsTopLevelEquality ==
    pc = "compared" =>
        /\ match = HoldsDefinition(existing, Definition)
        /\ \A k \in TopLevelKeys \ DOMAIN Definition.m :
              /\ Matches(Definition, WithoutKey(existing, k)) = match
              /\ \A v \in ProbeValues :
                    Matches(Definition, WithKey(existing, k, v)) = match

\* a comparison that matches although the object has a top-level key of its own
C6_Witness ==
    /\ pc = "compared" /\ match
    /\ TopLevelExtraKey(Definition, existing)

\* C7: with state=present, no force, outside check-mode and get returning the
\* object, update is called exactly when the diff is non-empty; an update
\* that succeeds gives changed=true with the updated object as result, and
\* without update the run reports changed=false with the existing object as
\* result and makes no mutating call.
C7_UpdateIffDiff ==
    (Done /\ ~WantAbsent /\ ~params.force /\ ~params.check_mode /\ GotExisting)
        => /\ Count({"update"}) = (IF match THEN 0 ELSE 1)
           /\ match = Matches(Definition, before)
           /\ Succeeded("update") =>
                 /\ report = ExitJson(TRUE, cluster)
                 /\ cluster = MergePatch(before, Definition)
           /\ Count({"update"}) = 0 =>
                 /\ report = ExitJson(FALSE, before)
                 /\ Count(Mutating) = 0
                 /\ cluster = before

C7_Witness ==
    /\ Done /\ ~WantAbsent /\ ~params.force /\ ~params.check_mode /\ GotExisting
    /\ Succeeded("update")
    /\ report.kind = "exit" /\ report.changed

\* C8: with state=absent and get answering not-found, the run reports
\* changed=false and issues no delete nor any other mutating call, in
\* check-mode and outside it.
C8_AbsentOnAbsentNoop ==
    (Done /\ WantAbsent /\ GotNotFound)
        => /\ report = ExitJson(FALSE, EmptyDict)
           /\ Count(Mutating) = 0
           /\ cluster = before

C8_Witness ==
    /\ Done /\ WantAbsent /\ GotNotFound /\ ~params.check_mode
    /\ report.kind = "exit"

\* C9: with state=present, force, outside check-mode and get returning the
\* object, replace is called exactly once whether or not the object matches
\* the definition, update is never called, and a replace that succeeds gives
\* changed=true.
C9_ForceReplaces ==
    (Done /\ ~WantAbsent /\ params.force /\ ~params.check_mode /\ GotExisting)
        => /\ Count({"replace"}) = 1
           /\ Count({"update"}) = 0
           /\ Succeeded("replace") => report = ExitJson(TRUE, Definition)

\* a forced replace of an object that already matches the definition
C9_Witness ==
    /\ Done /\ ~WantAbsent /\ params.force /\ ~params.check_mode /\ GotExisting
    /\ Matches(Definition, before)
    /\ Succeeded("replace") /\ report.changed

\* C10: with state=present, outside check-mode and get answering not-found,
\* create is called exactly once with the definition, no replace, update or
\* delete is called, and a create that succeeds gives changed=true with the
\* created object as result.
C10_CreateWhenAbsent ==
    (Done /\ ~WantAbsent /\ ~params.check_mode /\ GotNotFound)
        => /\ Count({"create"}) = 1
           /\ Count(Mutating) = 1
           /\ \A i \in 1 .. Len(log) : log[i].op = "create" => log[i].body = Definition
           /\ Succeeded("create") =>
                 /\ report = ExitJson(TRUE, cluster)
                 /\ cluster = Definition

C10_Witness ==
    /\ Done /\ ~WantAbsent /\ ~params.check_mode /\ GotNotFound
    /\ Succeeded("create") /\ report.changed

\* the text of the failure report of get (line 113)
GetFailureText == "Failed to retrieve requested object: "

\* C13: a failing get ends the run with a failure report carrying the status
\* and the body, no other call made, exactly when its status is not 404; with
\* 404 no failure is reported for the get and the run goes on with the
\* existing object taken as absent (no-op under state=absent, the create
\* branch otherwise).
C13_GetFailureIffNot404 ==
    (Len(log) >= 1 /\ log[1].op = "get") =>
        LET status == log[1].status
            fatal == status # 0 /\ status # NotFound
        IN  /\ fatal <=> (report.kind = "fail" /\ report.msg[1] = GetFailureText)
            /\ fatal => /\ Done
                        /\ report = FailJson(GetFailureText, ErrorBody, status)
                        /\ Len(log) = 1
                        /\ cluster = before
            /\ status = NotFound =>
                  /\ existing = NoneV
                  /\ report.kind # "fail"
                  /\ pc = "decide" \/ Done
                  /\ Done => IF params.state = "absent"
                             THEN report = ExitJson(FALSE, EmptyDict) /\ Len(log) = 1
                             ELSE Count({"replace", "update", "delete"}) = 0

\* a get that failed with a status other than 404
C13_Witness ==
    /\ Done /\ Len(log) = 1 /\ log[1].op = "get"
    /\ log[1].status \in ErrorStatuses
    /\ report.kind = "fail" /\ report.error = log[1].status

\* C14: an API error raised by create, replace, update, delete or list ends
\* the run at once with a failure report whose message includes the response
\* body, the failing call being the last call made.
C14_ApiErrorReported ==
    \A i \in 1 .. Len(log) :
        (log[i].op \in Mutating \cup {"list"} /\ log[i].status # 0)
            => /\ Done
               /\ i = Len(log)
               /\ report.kind = "fail"
               /\ report.msg[2] = ErrorBody

\* the suffix that names a list kind, matched exactly
ExactListSuffix == <<"L", "i", "s", "t">>

\* C15: for a kind ending with the exact suffix "List" the run makes one list
\* call, no get and no mutating call, and a list that succeeds gives
\* changed=false with the list as result.
C15_ListKindIsListed ==
    (Done /\ EndsWith(Definition.m.kind.s, ExactListSuffix))
        => /\ Count({"list"}) = 1
           /\ Count({"get"}) = 0
           /\ Count(Mutating) = 0
           /\ Succeeded("list") => report = ExitJson(FALSE, ListResult(cluster))

Operations == Mutating \cup {"get", "list"}

\* C18: in a run each cluster operation is called at most once, also after
\* it failed, and at most one mutating operation is called in total.
C18_NoRetryOneMutation ==
    /\ \A op \in Operations : Count({op}) <= 1
    /\ Count(Mutating) <= 1

\* a run whose mutating call failed
C18_Witness ==
    /\ Done /\ Count(Mutating) = 1
    /\ \E i \in 1 .. Len(log) : log[i].op \in Mutating /\ log[i].status # 0

\* C19: under state=absent the only mutating call is delete and get had
\* returned the object; under any other state delete is never called, create
\* is called only after get answered not-found, replace and update only after
\* get returned the object.
C19_MutationFitsState ==
    \A i \in 1 .. Len(log) :
        log[i].op \in Mutating =>
            IF params.state = "absent"
            THEN log[i].op = "delete" /\ GotExisting
            ELSE /\ log[i].op # "delete"
                 /\ log[i].op = "create" => GotNotFound
                 /\ log[i].op \in {"replace", "update"} => GotExisting

C19_Witness ==
    /\ Done /\ params.state = "absent" /\ Succeeded("delete") /\ cluster = NoneV

-----------------------------------------------------------------------------
(* Properties of the module object, under SpecModule *)

ModuleDone == mod.mpc = "done"

\* the run ended with a failure report (configuration, resolution or API error)
FailureReported == \E i \in 1 .. Len(mod.reports) : mod.reports[i].kind = "fail"

\* kind and apiVersion of a definition are both non-empty
Complete(definition) ==
    /\ Truthy(DictGet(definition, "kind"))
    /\ Truthy(DictGet(definition, "apiVersion"))

\* the definitions the invocation was given, inline or in the src file
GivenDefinitions ==
    IF IsMap(mod.resource_definition) THEN {mod.resource_definition}
    ELSE IF mod.src # NoneV THEN {mod.src.l[i] : i \in 1 .. Len(mod.src.l)}
    ELSE {}

\* C11: in a run over N definitions, each with its kind and apiVersion, in
\* which no fatal error is reported, every one of the N definitions is
\* resolved and actioned, in document order; the run does not stop before the
\* last one.
C11_AllDefinitionsActioned ==
    (ModuleDone /\ ~FailureReported /\ \A d \in GivenDefinitions : Complete(d))
        => /\ mod.resolved = mod.resource_definitions
           /\ mod.actioned = mod.resource_definitions

\* C12: every invocation ends with exactly one terminal report, a success
\* report or a failure report: never none, never more than one.
C12_ExactlyOneReport ==
    ModuleDone
        => /\ Len(mod.reports) = 1
           /\ mod.reports[1].kind \in {"exit", "fail"}
           /\ mod.raised = ""

\* C16: every definition that reaches endpoint resolution has a non-empty
\* kind and a non-empty apiVersion, inline or from a src file; a run given a
\* definition with an empty field ends with a failure report and resolves
\* nothing.
C16_ResolvedDefinitionsComplete ==
    /\ \A i \in 1 .. Len(mod.resolved) : Complete(mod.resolved[i])
    /\ (ModuleDone /\ \E d \in GivenDefinitions : ~Complete(d))
          => FailureReported /\ mod.resolved = <<>>

\* C17: resolution of a definition D that has its kind and apiVersion gives
\* the endpoint whose kind equals D.kind and whose "{group}/{version}" equals
\* D.apiVersion; when no endpoint does, the run ends with a failure report
\* and no cluster call was made.
C17_ResolutionExact ==
    (mod.mpc \in {"done", "perform_action"} /\ Len(mod.resolved) >= 1
        /\ Complete(mod.resolved[Len(mod.resolved)]))
        => LET D == mod.resolved[Len(mod.resolved)]
           IN  IF \E e \in Endpoints : ExactMatch(D, e)
               THEN /\ mod.resource \in Endpoints
                    /\ ExactMatch(D, mod.resource)
               ELSE /\ ModuleDone
                    /\ FailureReported
                    /\ log = <<>>

====
